---- MODULE Spec2Model ----
(***************************************************************************)
(* compressed_rotating_file_sink (src/CompressedRotatingSink.h): a size-   *)
(* triggered rotating log sink that compresses the segment shifted to      *)
(* index max_files_ and keeps a ladder of archives above it.               *)
(*                                                                         *)
(* A file name is a tuple: <<i>> is the plaintext segment of index i       *)
(* (<<0>> is the base path), <<N, t>> is the archive of slot N that        *)
(* carries timestamp t.  The base path is taken to have an extension, so   *)
(* an archive made from the base path itself (max_files_ = 0) matches      *)
(* neither regex of compress_.  A file's content is the sequence of the    *)
(* ids of the records written to it; recs[id] is the byte size of a record.*)
(* current_size_ is kept as a natural number: a std::size_t cannot wrap    *)
(* before 2^64 bytes have been logged.                                     *)
(***************************************************************************)
EXTENDS Integers, Sequences, FiniteSets, TLC

\* ---------------------------------------------------------------- bounds
MaxWrites == 3
MaxCtor == 2
MaxFaults == 3
MaxFilesBound == 2
MaxCompBound == 2
MaxRevisits == 1
MaxExcess == 1

MaxPathLen == 4
MaxIndex == 11

\* the thresholds and record sizes explored (the scenario of 100 / 60 bytes)
MaxSizes == {100, 120}
RecordSizes == {60}

\* stand-in for std::size_t(-1), which no slot number of the model equals
SIZE_MAX == 2147483647

VARIABLES
  max_size_, max_files_, max_compressed_files_,   \* configuration members
  base_filename_,     \* the base path, a sequence of characters
  index_, name_,      \* an index given to calc_filename and the name returned
  current_size_,      \* the active-segment byte counter
  disk,               \* the directory: file name -> content
  fd,                 \* file_helper_: "closed", "linked" (open on the base
                      \* path's file) or "unlinked" (open on a removed file)
  orphan,             \* content of the open file once it has been unlinked
  pc,                 \* position: "none" (no sink object), "idle", "rotate",
                      \* "rotate_retry", "scan", "scan_retry"
  caller,             \* who runs rotate_/compress_: "ctor" or "sink"
  msg,                \* id of the record sink_it_ is handling
  i,                  \* loop variable of rotate_
  scanMust,           \* entries the directory iterator still has to return
  scanMay,            \* entries added or removed since the iterator was made
  cur,                \* directory entry whose rename is being retried
  revisits,           \* entries of scanMay the iterator has returned
  clock,              \* the last timestamp Utility::getTime() returned
  recs,               \* size of every record handed to sink_it_, by id
  born,               \* by id: completed rotations when the record was written
  rotDone,            \* completed rotate_ calls
  nCtor,              \* constructions so far
  faults,             \* failures of a rename, the enumeration or the compressor so far
  call,               \* what the running / last operation did
  snap,               \* filesystem and counter when a first rename attempt failed
  pend,               \* segment the compressor last failed on, and its retry
  inside              \* calls that hold base_sink's mutex_ (inside log or flush)

vars == <<max_size_, max_files_, max_compressed_files_, base_filename_,
          index_, name_, current_size_, disk,
          fd, orphan, pc, caller, msg, i, scanMust, scanMay, cur,
          revisits, clock, recs, born, rotDone, nCtor, faults, call, snap, pend,
          inside>>

cfgVars == <<max_size_, max_files_, max_compressed_files_>>

nameVars == <<base_filename_, index_, name_>>

\* ------------------------------------------------------------ file names
\* Paths are sequences of one-character strings.
Alphabet == {"a", ".", "/"}

RECURSIVE PathsOfLen(_)
PathsOfLen(n) ==
  IF n = 0 THEN {<<>>}
  ELSE {Append(p, c) : p \in PathsOfLen(n - 1), c \in Alphabet}

\* the base paths explored
Paths == UNION {PathsOfLen(n) : n \in 1..MaxPathLen}

\* the base path of the sink whose operations are explored: "a.a"
DefaultBase == <<"a", ".", "a">>

DigitChars == <<"0", "1", "2", "3", "4", "5", "6", "7", "8", "9">>

\* fmt::format("{}", index): the decimal digits of index
RECURSIVE to_string(_)
to_string(n) ==
  IF n < 10 THEN <<DigitChars[n + 1]>>
  ELSE Append(to_string(n \div 10), DigitChars[(n % 10) + 1])

\* std::string::rfind / find_last_of: the last position of a character of
\* cs in s, 0 when there is none
rfind(s, cs) ==
  LET ps == {k \in 1..Len(s) : s[k] \in cs}
  IN IF ps = {} THEN 0 ELSE CHOOSE k \in ps : \A m \in ps : m <= k

\* details::file_helper::split_by_extension (spdlog): the extension starts
\* at the last dot, unless the dot is first or last in the path, or opens
\* the file name (a folder separator stands right before it or after it)
split_by_extension(fname) ==
  LET ext_index == rfind(fname, {"."})
      folder_index == rfind(fname, {"/"})
  IN IF ext_index = 0 \/ ext_index = 1 \/ ext_index = Len(fname)
       THEN <<fname, <<>>>>
     ELSE IF folder_index # 0 /\ folder_index >= ext_index - 1
       THEN <<fname, <<>>>>
     ELSE <<SubSeq(fname, 1, ext_index - 1), SubSeq(fname, ext_index, Len(fname))>>

\* line 94: fmt::format("{}.{}{}", basename, index, ext)
format_name(basename, index, ext) == basename \o <<".">> \o to_string(index) \o ext

\* mutant: index 0 is formatted like every other index
calc_filename_formats_zero(filename, index) ==
  format_name(split_by_extension(filename)[1], index, split_by_extension(filename)[2])

\* lines 85-95: calc_filename(filename, index)
calc_filename_path(filename, index) ==
  IF index = 0 THEN filename
  ELSE format_name(split_by_extension(filename)[1], index, split_by_extension(filename)[2])

\* ------------------------------------------------------- the file system
NoName == <<>>
Active == <<0>>

Exists(d, n) == n \in DOMAIN d

\* details::os::remove
Remove(d, n) == [m \in (DOMAIN d) \ {n} |-> d[m]]

\* creating or overwriting a file
Put(d, n, c) == [m \in (DOMAIN d) \cup {n} |-> IF m = n THEN c ELSE d[m]]

RECURSIVE Size(_, _)
Size(rs, c) == IF c = <<>> THEN 0 ELSE rs[Head(c)] + Size(rs, Tail(c))

IsPlain(n) == Len(n) = 1
IsArchiveName(n) == Len(n) = 2
Archives(d) == {n \in DOMAIN d : IsArchiveName(n)}
Plain(d) == {n \in DOMAIN d : IsPlain(n)}

\* the name calc_filename(base_filename_, index) returns, held by its index:
\* distinct indices give distinct paths
calc_filename(index) == <<index>>

\* rename_file: delete the target if it exists, then rename src to target;
\* ok is whether the operating system lets the rename through.
rename_ok(d, src, ok) == ok /\ Exists(d, src)

\* mutant: the target is removed only when the rename goes through
rename_file_keeps_target(d, src, target, ok) ==
  IF rename_ok(Remove(d, target), src, ok)
    THEN Put(Remove(Remove(d, target), src), target, d[src])
    ELSE d

rename_file(d, src, target, ok) ==
  LET d1 == Remove(d, target)
  IN IF rename_ok(d1, src, ok) THEN Put(Remove(d1, src), target, d1[src]) ELSE d1

\* file_helper_.open(base): open for append, creating the file when absent
open(d) == IF Exists(d, Active) THEN d ELSE Put(d, Active, <<>>)

\* mutant: the reopen does not truncate
reopen_keeps(d) == open(d)

\* file_helper_.reopen(true): open the base path with truncation
reopen(d) == Put(d, Active, <<>>)

\* Bound of the model: with max_compressed_files_ = 0 or max_files_ = 0 the
\* archives pile up without limit, so no new cycle starts once the archives
\* on disk exceed max_compressed_files_ by MaxExcess.
CanCycle(d) == Cardinality(Archives(d)) < max_compressed_files_ + MaxExcess

\* ------------------------------------------------- base_sink<Mutex>
\* mutant: details::null_mutex (the _st variant, line 65), whose lock()
\* never waits
null_mutex_lock(holders) == TRUE

\* line 64: the _mt variant instantiates the sink with std::mutex, whose
\* lock() returns only when no other call holds it
mutex_lock(holders) == holders = 0

\* base_sink::log and base_sink::flush hold mutex_ for the whole of
\* sink_it_ / flush_ (std::lock_guard): the call that leaves releases it
mutex_unlock(holders) == IF caller = "sink" THEN holders - 1 ELSE holders

\* the constructor has returned: the sink can be called
Constructed == pc # "none" /\ (caller = "ctor" => pc = "idle")

\* ------------------------------------------------------------ sink_it_
\* line 105: current_size_ += formatted.size()
sink_new_size(size, n) == size + n

\* mutant: the threshold test is >= instead of >
needs_rotation_ge(size) == size >= max_size_

\* line 106: if (current_size_ > max_size_)
needs_rotation(size) == size > max_size_

\* line 109: current_size_ = formatted.size()
size_after_cycle(size, n) == n

\* file_helper_.write: the bytes go to the file the handle is open on
write_disk(d, f, id) == IF f = "linked" THEN Put(d, Active, Append(d[Active], id)) ELSE d
write_orphan(o, f, id) == IF f = "unlinked" THEN Append(o, id) ELSE o

\* disk0 is the directory when the operation started, flag the constructor's
\* rotate_on_open argument
NewCall(op, rot, pre, n, d0, flag) ==
  [op |-> op, err |-> "none", nRot |-> rot, nComp |-> 0, nFail |-> 0,
   pre |-> pre, size |-> n, compFail |-> FALSE, disk0 |-> d0, flag |-> flag]

NoSnap == [disk |-> <<>>, size |-> 0, must |-> {}, may |-> {}]

\* ------------------------------------------------------------------ Init
\* no sink object yet, an empty directory
SinkStart ==
  /\ current_size_ = 0
  /\ disk = <<>>
  /\ fd = "closed"
  /\ orphan = <<>>
  /\ pc = "none"
  /\ caller = "ctor"
  /\ msg = 0
  /\ i = 0
  /\ scanMust = {}
  /\ scanMay = {}
  /\ cur = NoName
  /\ revisits = 0
  /\ clock = 0
  /\ recs = <<>>
  /\ born = <<>>
  /\ rotDone = 0
  /\ nCtor = 0
  /\ faults = 0
  /\ call = NewCall("none", 0, 0, 0, <<>>, FALSE)
  /\ snap = NoSnap
  /\ pend = <<>>
  /\ inside = 0

Init ==
  /\ max_size_ \in MaxSizes
  /\ max_files_ \in 0..MaxFilesBound
  /\ max_compressed_files_ \in 0..MaxCompBound
  /\ base_filename_ = DefaultBase
  /\ index_ = 0
  /\ name_ = calc_filename_path(base_filename_, 0)
  /\ SinkStart

\* ----------------------------------------------------------- constructor
\* lines 71-72: the size the constructor reads from the opened file
ctor_size(d) == Size(recs, open(d)[Active])

\* mutant: the size of the opened file is not looked at
ctor_rotates_any(rotate_on_open, size) == rotate_on_open

\* line 77: if (rotate_on_open && current_size_ > 0)
ctor_rotates(rotate_on_open, size) == rotate_on_open /\ size > 0

Construct(rotate_on_open) ==
  /\ pc = "none"
  /\ nCtor < MaxCtor
  /\ nCtor' = nCtor + 1
  /\ ctor_rotates(rotate_on_open, ctor_size(disk)) => CanCycle(disk)
  /\ disk' = open(disk)
  /\ current_size_' = ctor_size(disk)
  /\ orphan' = <<>>
  /\ caller' = "ctor"
  /\ msg' = 0
  /\ snap' = NoSnap
  /\ IF ctor_rotates(rotate_on_open, ctor_size(disk))
       THEN \* rotate_() starts: file_helper_.close()
            /\ pc' = "rotate"
            /\ fd' = "closed"
            /\ i' = max_files_
            /\ call' = NewCall("ctor", 1, ctor_size(disk), 0, open(disk), rotate_on_open)
       ELSE /\ pc' = "idle"
            /\ fd' = "linked"
            /\ i' = 0
            /\ call' = NewCall("ctor", 0, ctor_size(disk), 0, open(disk), rotate_on_open)
  /\ UNCHANGED <<cfgVars, nameVars, inside, scanMust, scanMay, cur, revisits, clock, recs, born,
                 rotDone, faults, pend>>

\* the sink object is destroyed (file_helper_ closes the file)
Destroy ==
  /\ pc = "idle"
  /\ nCtor < MaxCtor
  /\ pc' = "none"
  /\ fd' = "closed"
  /\ orphan' = <<>>
  /\ UNCHANGED <<cfgVars, nameVars, inside, current_size_, disk, caller, msg, i, scanMust,
                 scanMay, cur, revisits, clock, recs, born, rotDone, nCtor, faults,
                 call, snap, pend>>

\* -------------------------------------------------------------- sink_it_
SinkIt(n) ==
  /\ Constructed
  /\ mutex_lock(inside)
  /\ Len(recs) < MaxWrites
  /\ needs_rotation(sink_new_size(current_size_, n)) => CanCycle(disk)
  /\ recs' = Append(recs, n)
  /\ msg' = Len(recs) + 1
  /\ caller' = "sink"
  /\ current_size_' = sink_new_size(current_size_, n)
  /\ IF needs_rotation(sink_new_size(current_size_, n))
       THEN \* rotate_() starts: file_helper_.close()
            /\ pc' = "rotate"
            /\ fd' = "closed"
            /\ orphan' = <<>>
            /\ i' = max_files_
            /\ call' = NewCall("sink", 1, current_size_, n, disk, FALSE)
            /\ born' = Append(born, rotDone)
            /\ inside' = inside + 1
            /\ UNCHANGED disk
       ELSE /\ pc' = "idle"
            /\ disk' = write_disk(disk, fd, Len(recs) + 1)
            /\ orphan' = write_orphan(orphan, fd, Len(recs) + 1)
            /\ call' = NewCall("sink", 0, current_size_, n, disk, FALSE)
            /\ born' = Append(born, rotDone)
            /\ UNCHANGED <<fd, i, inside>>
  /\ UNCHANGED <<cfgVars, nameVars, scanMust, scanMay, cur, revisits, clock, rotDone, nCtor,
                 faults, snap, pend>>

\* base_sink::flush: lock, flush_ (file_helper_.flush(), lines 115-117),
\* unlock; the bytes written so far are unchanged
Flush ==
  /\ Constructed
  /\ mutex_lock(inside)
  /\ call' = NewCall("flush", 0, current_size_, 0, disk, FALSE)
  /\ call' # call
  /\ UNCHANGED <<cfgVars, nameVars, inside, current_size_, disk, fd, orphan, pc, caller,
                 msg, i, scanMust, scanMay, cur, revisits, clock, recs, born,
                 rotDone, nCtor, faults, snap, pend>>

\* an exception leaves the running operation: sink_it_ returns to the caller
\* without writing; a constructor that throws leaves no sink object
pc_after_throw == IF caller = "sink" THEN "idle" ELSE "none"
fd_after_throw(f) == IF caller = "sink" THEN f ELSE "closed"

\* --------------------------------------------------------------- rotate_
\* mutant: the source is the slot itself
rotate_src_same(k) == calc_filename(k)

\* line 130: the source of shift step k
rotate_src(k) == calc_filename(k - 1)

\* mutant: the target is one slot too far
rotate_target_skips(k) == calc_filename(k + 1)

\* line 134: the target of shift step k
rotate_target(k) == calc_filename(k)

\* mutants: the failure path leaves the file, or the counter, as it is
rotate_fail_disk_keeps(d) == open(d)
rotate_fail_size_keeps(size) == size

\* lines 142-143: after the second failure the active file is truncated and
\* the counter reset, then the error is thrown
rotate_fail_disk(d) == reopen(d)
rotate_fail_size(size) == 0

\* line 175
max_itr_value ==
  IF max_compressed_files_ + max_files_ = 0
    THEN SIZE_MAX
    ELSE max_compressed_files_ + max_files_ - 1

\* line 178 / 190: regex_oldest_file_str matches the archives of slot max_itr_value
IsOldest(n) == IsArchiveName(n) /\ n[1] = max_itr_value

\* line 179 / 195: regex_file_str matches <base>.<N><ext>...: every archive
\* made from a segment of index >= 1
IsShiftable(n) == IsArchiveName(n) /\ n[1] >= 1

\* lines 196-199: the same name with N + 1 for N
shift_target(n) == <<n[1] + 1, n[2]>>

\* line 188: what the directory iterator is created over (the entries that
\* match neither regex are passed over and are left out)
scan_entries(d) == {n \in DOMAIN d : IsOldest(n) \/ IsShiftable(n)}

\* one loop iteration of rotate_ (lines 129-147), first rename attempt
RotateSkip ==
  /\ pc = "rotate"
  /\ i > 0
  /\ ~Exists(disk, rotate_src(i))
  /\ i' = i - 1
  /\ UNCHANGED <<cfgVars, nameVars, inside, current_size_, disk, fd, orphan, pc, caller, msg,
                 scanMust, scanMay, cur, revisits, clock, recs, born, rotDone, nCtor,
                 faults, call, snap, pend>>

RotateRename ==
  /\ pc = "rotate"
  /\ i > 0
  /\ Exists(disk, rotate_src(i))
  /\ disk' = rename_file(disk, rotate_src(i), rotate_target(i), TRUE)
  /\ i' = i - 1
  /\ UNCHANGED <<cfgVars, nameVars, inside, current_size_, fd, orphan, pc, caller, msg,
                 scanMust, scanMay, cur, revisits, clock, recs, born, rotDone, nCtor,
                 faults, call, snap, pend>>

\* mutant: the first failed attempt already truncates the active file and
\* resets the counter
RotateRenameFailsTruncating ==
  /\ pc = "rotate"
  /\ i > 0
  /\ Exists(disk, rotate_src(i))
  /\ faults < MaxFaults
  /\ faults' = faults + 1
  /\ disk' = rotate_fail_disk(rename_file(disk, rotate_src(i), rotate_target(i), FALSE))
  /\ current_size_' = rotate_fail_size(current_size_)
  /\ snap' = [disk |-> disk, size |-> current_size_, must |-> scanMust, may |-> scanMay]
  /\ call' = [call EXCEPT !.nFail = @ + 1]
  /\ pc' = "rotate_retry"
  /\ UNCHANGED <<cfgVars, nameVars, inside, fd, orphan, caller, msg, i,
                 scanMust, scanMay, cur, revisits, clock, recs, born, rotDone, nCtor,
                 pend>>

RotateRenameFails ==
  /\ pc = "rotate"
  /\ i > 0
  /\ Exists(disk, rotate_src(i))
  /\ faults < MaxFaults
  /\ faults' = faults + 1
  /\ disk' = rename_file(disk, rotate_src(i), rotate_target(i), FALSE)
  /\ snap' = [disk |-> disk, size |-> current_size_, must |-> scanMust, may |-> scanMay]
  /\ call' = [call EXCEPT !.nFail = @ + 1]
  /\ pc' = "rotate_retry"
  /\ UNCHANGED <<cfgVars, nameVars, inside, current_size_, fd, orphan, caller, msg, i,
                 scanMust, scanMay, cur, revisits, clock, recs, born, rotDone, nCtor,
                 pend>>

\* mutant: after a successful retry the loop does not move on to the next
\* index
RotateRetryRepeats ==
  /\ pc = "rotate_retry"
  /\ disk' = rename_file(disk, rotate_src(i), rotate_target(i), TRUE)
  /\ pc' = "rotate"
  /\ snap' = NoSnap
  /\ UNCHANGED <<cfgVars, nameVars, inside, current_size_, fd, orphan, caller,
                 msg, i, scanMust, scanMay, cur, revisits, clock, recs, born,
                 rotDone, nCtor, faults, call, pend>>

\* lines 140-141: the retry succeeds
RotateRetry ==
  /\ pc = "rotate_retry"
  /\ disk' = rename_file(disk, rotate_src(i), rotate_target(i), TRUE)
  /\ i' = i - 1
  /\ pc' = "rotate"
  /\ snap' = NoSnap
  /\ UNCHANGED <<cfgVars, nameVars, inside, current_size_, fd, orphan, caller, msg, scanMust,
                 scanMay, cur, revisits, clock, recs, born, rotDone, nCtor, faults,
                 call, pend>>

\* lines 141-145: the retry fails too
RotateRetryFails ==
  /\ pc = "rotate_retry"
  /\ faults < MaxFaults
  /\ faults' = faults + 1
  /\ disk' = rotate_fail_disk(rename_file(disk, rotate_src(i), rotate_target(i), FALSE))
  /\ current_size_' = rotate_fail_size(current_size_)
  /\ fd' = fd_after_throw("linked")
  /\ pc' = pc_after_throw
  /\ inside' = mutex_unlock(inside)
  /\ call' = [call EXCEPT !.nFail = @ + 1, !.err = "rotation"]
  /\ snap' = NoSnap
  /\ UNCHANGED <<cfgVars, nameVars, orphan, caller, msg, i, scanMust, scanMay, cur, revisits,
                 clock, recs, born, rotDone, nCtor, pend>>

\* line 148, then compress_ up to the creation of the directory iterator
RotateDone ==
  /\ pc = "rotate"
  /\ i = 0
  /\ disk' = reopen(disk)
  /\ fd' = "linked"
  /\ rotDone' = rotDone + 1
  /\ scanMust' = scan_entries(reopen(disk))
  /\ scanMay' = {}
  /\ revisits' = 0
  /\ call' = [call EXCEPT !.nComp = @ + 1]
  /\ pc' = "scan"
  /\ UNCHANGED <<cfgVars, nameVars, inside, current_size_, orphan, caller, msg, i, cur, clock,
                 recs, born, nCtor, faults, snap, pend>>

\* ------------------------------------------------------------- compress_
\* The directory iterator returns every entry that was there when it was
\* made and has not been touched since (scanMust); whether it returns an
\* entry that a rename created or removed in the meantime is unspecified
\* (scanMay), so both outcomes are taken.
must_after(must, e, t) == must \ {e, t}
may_after(may, e, t, made) == (may \ {e}) \cup (IF made THEN {t} ELSE {})

\* lines 190-193: an archive of the oldest slot is deleted
ScanDeleteOldest(e) ==
  /\ pc = "scan"
  /\ e \in scanMust \cup scanMay
  /\ e \in scanMust \/ revisits < MaxRevisits
  /\ revisits' = IF e \in scanMust THEN revisits ELSE revisits + 1
  /\ IsOldest(e)
  /\ disk' = Remove(disk, e)
  /\ scanMust' = scanMust \ {e}
  /\ scanMay' = scanMay \ {e}
  /\ UNCHANGED <<cfgVars, nameVars, inside, current_size_, fd, orphan, pc, caller, msg, i, cur,
                 clock, recs, born, rotDone, nCtor, faults, call, snap, pend>>

\* lines 195-201: any other archive is renamed to the next slot
ScanRename(e) ==
  /\ pc = "scan"
  /\ e \in scanMust \cup scanMay
  /\ e \in scanMust \/ revisits < MaxRevisits
  /\ revisits' = IF e \in scanMust THEN revisits ELSE revisits + 1
  /\ ~IsOldest(e)
  /\ IsShiftable(e)
  /\ Exists(disk, e)
  /\ disk' = rename_file(disk, e, shift_target(e), TRUE)
  /\ scanMust' = must_after(scanMust, e, shift_target(e))
  /\ scanMay' = may_after(scanMay, e, shift_target(e), TRUE)
  /\ UNCHANGED <<cfgVars, nameVars, inside, current_size_, fd, orphan, pc, caller, msg, i, cur,
                 clock, recs, born, rotDone, nCtor, faults, call, snap, pend>>

ScanRenameFails(e) ==
  /\ pc = "scan"
  /\ e \in scanMust \cup scanMay
  /\ e \in scanMust \/ revisits < MaxRevisits
  /\ revisits' = IF e \in scanMust THEN revisits ELSE revisits + 1
  /\ ~IsOldest(e)
  /\ IsShiftable(e)
  /\ Exists(disk, e)
  /\ faults < MaxFaults
  /\ faults' = faults + 1
  /\ disk' = rename_file(disk, e, shift_target(e), FALSE)
  /\ scanMust' = must_after(scanMust, e, shift_target(e))
  /\ scanMay' = may_after(scanMay, e, shift_target(e), Exists(disk, shift_target(e)))
  /\ cur' = e
  /\ snap' = [disk |-> disk, size |-> current_size_, must |-> scanMust, may |-> scanMay]
  /\ call' = [call EXCEPT !.nFail = @ + 1]
  /\ pc' = "scan_retry"
  /\ UNCHANGED <<cfgVars, nameVars, inside, current_size_, fd, orphan, caller, msg, i, clock,
                 recs, born, rotDone, nCtor, pend>>

\* lines 205-206: the retry succeeds
ScanRetry ==
  /\ pc = "scan_retry"
  /\ disk' = rename_file(disk, cur, shift_target(cur), TRUE)
  /\ scanMay' = may_after(scanMay, cur, shift_target(cur), TRUE)
  /\ cur' = NoName
  /\ snap' = NoSnap
  /\ pc' = "scan"
  /\ UNCHANGED <<cfgVars, nameVars, inside, revisits, current_size_, fd, orphan, caller, msg, i,
                 scanMust, clock, recs, born, rotDone, nCtor, faults, call,
                 pend>>

\* lines 206-208: the retry fails too, spdlog_ex leaves compress_
ScanRetryFails ==
  /\ pc = "scan_retry"
  /\ faults < MaxFaults
  /\ faults' = faults + 1
  /\ disk' = rename_file(disk, cur, shift_target(cur), FALSE)
  /\ cur' = NoName
  /\ snap' = NoSnap
  /\ call' = [call EXCEPT !.nFail = @ + 1, !.err = "compression"]
  /\ fd' = fd_after_throw(fd)
  /\ pc' = pc_after_throw
  /\ inside' = mutex_unlock(inside)
  /\ UNCHANGED <<cfgVars, nameVars, revisits, current_size_, orphan, caller, msg, i, scanMust,
                 scanMay, clock, recs, born, rotDone, nCtor, pend>>

\* lines 213-215: the enumeration throws filesystem_error, which is
\* rethrown as spdlog_ex
ScanEnumFails ==
  /\ pc = "scan"
  /\ faults < MaxFaults
  /\ faults' = faults + 1
  /\ call' = [call EXCEPT !.err = "compression"]
  /\ fd' = fd_after_throw(fd)
  /\ pc' = pc_after_throw
  /\ inside' = mutex_unlock(inside)
  /\ UNCHANGED <<cfgVars, nameVars, current_size_, disk, orphan, caller, msg, i,
                 scanMust, scanMay, cur, revisits, clock, recs, born, rotDone, nCtor,
                 snap, pend>>

\* line 217: the segment compress_ hands to the compressor
file_to_compress == calc_filename(max_files_)

\* Utility::getTime and Utility::compressedFileExt (shared.h): the archive
\* made at time t from the segment of the given index is
\* <segment path>.<t><archive suffix>, which the regexes read as that slot
archive_name(index, t) == <<index, t>>

\* Utility::compressFile (shared.h), when it succeeds: the archive dst
\* holds the content of src
compressFile(d, dst, src) == Put(d, dst, d[src])

\* line 220
new_compressed_file(t) == archive_name(max_files_, t)

\* mutant: the plaintext is not removed after a successful compression
compress_keeps_plaintext(d, t) ==
  compressFile(d, new_compressed_file(t), file_to_compress)

\* lines 221-222: the archive is written, then the plaintext is removed
compress_ok_disk(d, t) ==
  Remove(compressFile(d, new_compressed_file(t), file_to_compress), file_to_compress)

\* the open handle after the cycle: removing the base path's file while it
\* is open leaves the handle on an unlinked file
fd_after_compress(d) == IF Exists(d, Active) THEN "linked" ELSE "unlinked"

\* the constructor leaves current_size_ as it is after its cycle (line 80)
ctor_size_after_cycle(size) == size

\* the rest of the caller once compress_ has returned: sink_it_ sets the
\* counter and writes (lines 109-111), the constructor ends (lines 80-81)
Return(d) ==
  /\ pc' = "idle"
  /\ inside' = mutex_unlock(inside)
  /\ fd' = fd_after_compress(d)
  /\ IF caller = "sink"
       THEN /\ current_size_' = size_after_cycle(current_size_, call.size)
            /\ disk' = write_disk(d, fd_after_compress(d), msg)
            /\ orphan' = write_orphan(<<>>, fd_after_compress(d), msg)
            /\ born' = [born EXCEPT ![msg] = rotDone]
       ELSE /\ current_size_' = ctor_size_after_cycle(current_size_)
            /\ disk' = d
            /\ orphan' = <<>>
            /\ born' = born

\* line 218: nothing at index max_files_
ScanEndNoFile ==
  /\ pc = "scan"
  /\ scanMust = {}
  /\ ~Exists(disk, file_to_compress)
  /\ Return(disk)
  /\ pend' = <<>>
  /\ scanMay' = {}
  /\ UNCHANGED <<cfgVars, nameVars, caller, msg, i, scanMust, cur, revisits, clock, recs,
                 rotDone, nCtor, faults, call, snap>>

\* some archive on disk carries timestamp t
Stamped(d, t) == \E n \in Archives(d) : n[2] = t

\* lines 218-223: the compressor succeeds.  Utility::getTime() returns the
\* last timestamp again or a later one; when no archive carries the last
\* timestamp the two cannot be told apart and only the later one is taken.
ScanEndCompress(t) ==
  /\ pc = "scan"
  /\ scanMust = {}
  /\ Exists(disk, file_to_compress)
  /\ t = clock + 1 \/ Stamped(disk, clock)
  /\ clock' = t
  /\ Return(compress_ok_disk(disk, t))
  /\ pend' = <<>>
  /\ scanMay' = {}
  /\ UNCHANGED <<cfgVars, nameVars, caller, msg, i, scanMust, cur, revisits, recs, rotDone,
                 nCtor, faults, call, snap>>

\* lines 221: the compressor fails, the plaintext stays
ScanEndCompressFails ==
  /\ pc = "scan"
  /\ scanMust = {}
  /\ Exists(disk, file_to_compress)
  /\ faults < MaxFaults
  /\ faults' = faults + 1
  /\ Return(disk)
  /\ pend' = <<disk[file_to_compress]>>
  /\ call' = [call EXCEPT !.compFail = TRUE]
  /\ scanMay' = {}
  /\ UNCHANGED <<cfgVars, nameVars, caller, msg, i, scanMust, cur, revisits, clock, recs,
                 rotDone, nCtor, snap>>

\* ------------------------------------------------------------------ Next
Next ==
  \/ \E r \in BOOLEAN : Construct(r)
  \/ Destroy
  \/ \E n \in RecordSizes : SinkIt(n)
  \/ Flush
  \/ RotateSkip
  \/ RotateRename
  \/ RotateRenameFails
  \/ RotateRetry
  \/ RotateRetryFails
  \/ RotateDone
  \/ \E e \in scanMust \cup scanMay : ScanDeleteOldest(e)
  \/ \E e \in scanMust \cup scanMay : ScanRename(e)
  \/ \E e \in scanMust \cup scanMay : ScanRenameFails(e)
  \/ ScanRetry
  \/ ScanRetryFails
  \/ ScanEnumFails
  \/ ScanEndNoFile
  \/ \E t \in {clock, clock + 1} : ScanEndCompress(t)
  \/ ScanEndCompressFails

Spec == Init /\ [][Next]_vars

\* the steps of a running rotation+compression cycle
CycleStep ==
  \/ RotateSkip
  \/ RotateRename
  \/ RotateRenameFails
  \/ RotateRetry
  \/ RotateRetryFails
  \/ RotateDone
  \/ \E e \in scanMust \cup scanMay : ScanDeleteOldest(e)
  \/ \E e \in scanMust \cup scanMay : ScanRename(e)
  \/ \E e \in scanMust \cup scanMay : ScanRenameFails(e)
  \/ ScanRetry
  \/ ScanRetryFails
  \/ ScanEnumFails
  \/ ScanEndNoFile
  \/ \E t \in {clock, clock + 1} : ScanEndCompress(t)
  \/ ScanEndCompressFails

\* ------------------------------------------- calc_filename on its own
NameInit ==
  /\ max_size_ = 100
  /\ max_files_ = 0
  /\ max_compressed_files_ = 0
  /\ base_filename_ \in Paths
  /\ index_ = 0
  /\ name_ = calc_filename_path(base_filename_, 0)
  /\ SinkStart

\* a call of the static calc_filename with the base path and index k
CalcFilename(k) ==
  /\ index_' = k
  /\ name_' = calc_filename_path(base_filename_, k)
  /\ UNCHANGED <<cfgVars, base_filename_, current_size_, disk, fd, orphan, pc,
                 caller, msg, i, scanMust, scanMay, cur, revisits, clock, recs,
                 born, rotDone, nCtor, faults, call, snap, pend, inside>>

NameNext == \E k \in 0..MaxIndex : CalcFilename(k)

NameSpec == NameInit /\ [][NameNext]_vars

\* ---------------------------------------------------------- sanity checks
TypeOK ==
  /\ pc \in {"none", "idle", "rotate", "rotate_retry", "scan", "scan_retry"}
  /\ fd \in {"closed", "linked", "unlinked"}
  /\ caller \in {"ctor", "sink"}
  /\ current_size_ \in Nat
  /\ \A n \in DOMAIN disk : IsPlain(n) \/ IsArchiveName(n)

\* every entry the iterator can still return is on disk while the loop runs
ScanEntriesExist == pc = "scan" => (scanMust \cup scanMay) \subseteq DOMAIN disk

\* ---------------------------------------------------------------- claims
\* the content of the file the sink writes to
OpenContent == IF fd = "unlinked" THEN orphan ELSE disk[Active]

InFile(d, n, id) == \E k \in 1..Len(d[n]) : d[n][k] = id

\* a sink_it_ call has returned or thrown
AfterSink == pc = "idle" /\ call.op = "sink"

\* what C1 says of a finished sink_it_ call
C1_Outcome ==
  IF call.pre + call.size > max_size_
    THEN /\ call.nRot = 1
         /\ call.nComp = 1
         /\ current_size_ = call.size
         /\ OpenContent = <<msg>>
    ELSE /\ call.nRot = 0
         /\ call.nComp = 0
         /\ current_size_ = call.pre + call.size

C2_ArchiveBound == Cardinality(Archives(disk)) <= max_compressed_files_

\* C3: after every completed rotation+compression cycle every archive has a
\* slot N with max_files <= N <= max_files + max_compressed_files - 1.
C3_SlotRange ==
  (pc = "idle" /\ call.nComp = 1 /\ call.err = "none") =>
    \A n \in Archives(disk) :
      max_files_ <= n[1] /\ n[1] <= max_files_ + max_compressed_files_ - 1

\* C4: when rotate_ has raised its fatal error (a rename failed twice), the
\* active file exists, is open, is empty, and the byte counter is 0.
C4_FatalRotationTruncates ==
  call.err = "rotation" =>
    /\ Exists(disk, Active)
    /\ disk[Active] = <<>>
    /\ current_size_ = 0
    /\ (pc = "idle" => fd = "linked")

C4_Witness == pc = "idle" /\ call.err = "rotation" /\ call.pre > 0

C6_TransientRetry ==
  [][/\ (pc = "rotate_retry" /\ pc' = "rotate") =>
          /\ disk' = rename_file(snap.disk, rotate_src(i), rotate_target(i), TRUE)
          /\ current_size_' = snap.size
          /\ i' = i - 1
          /\ call'.err = "none"
     /\ (pc = "scan_retry" /\ pc' = "scan") =>
          /\ disk' = rename_file(snap.disk, cur, shift_target(cur), TRUE)
          /\ current_size_' = snap.size
          /\ scanMust' = must_after(snap.must, cur, shift_target(cur))
          /\ scanMay' = may_after(snap.may, cur, shift_target(cur), TRUE)
          /\ call'.err = "none"]_vars

\* a call that met one failed rename has ended without an error
C6_Witness ==
  pc = "idle" /\ call.nFail = 1 /\ call.err = "none" /\ call.nRot = 1

\* C7: between sink operations the byte counter equals the number of bytes
\* in the active file.
C7_CounterMatchesFile == pc = "idle" => current_size_ = Size(recs, OpenContent)

\* the archives that hold record id
ArchivesOf(id) == {n \in Archives(disk) : InFile(disk, n, id)}

Scenario ==
  /\ max_size_ = 100
  /\ max_files_ = 2
  /\ max_compressed_files_ = 2
  /\ nCtor = 1
  /\ faults = 0
  /\ pc = "idle"
  /\ call.op = "sink"
  /\ \A k \in 1..Len(recs) : recs[k] = 60

\* C9: in the scenario write 1 does not rotate; after write 2 record 1 is in
\* log.1 and the active log holds 60 bytes; after write 3 the active log holds
\* record 3, log.1 holds record 2, record 1 is only in one archive of slot 2,
\* and there is no plaintext log.2.
C9_Scenario ==
  Scenario =>
    /\ Len(recs) = 1 => (call.nRot = 0 /\ disk = (Active :> <<1>>))
    /\ Len(recs) = 2 =>
         /\ disk = (Active :> <<2>>) @@ (<<1>> :> <<1>>)
         /\ Size(recs, disk[Active]) = 60
    /\ Len(recs) = 3 =>
         /\ Plain(disk) = {Active, <<1>>}
         /\ disk[Active] = <<3>>
         /\ Size(recs, disk[Active]) = 60
         /\ disk[<<1>>] = <<2>>
         /\ Cardinality(Archives(disk)) = 1
         /\ \A n \in Archives(disk) : n[1] = 2 /\ disk[n] = <<1>>

C9_Witness == Scenario /\ Len(recs) = 3

\* C10: a compressor failure raises no error and leaves the segment of index
\* max_files in place, and when the next cycle reaches its compression step
\* that segment still holds the content the compressor failed on.
C10_CompressorFailureRetried ==
  /\ call.compFail => call.err = "none"
  /\ (pc = "idle" /\ call.compFail /\ max_files_ >= 1) =>
       (Exists(disk, file_to_compress) /\ disk[file_to_compress] = pend[1])
  /\ (pc = "scan" /\ pend # <<>>) =>
       (Exists(disk, file_to_compress) /\ disk[file_to_compress] = pend[1])

\* C11: between sink operations the file at index 0 exists on disk and is
\* the file that is open for writing.
C11_OneActive == pc = "idle" => (Exists(disk, Active) /\ fd = "linked")

\* the plaintext ladder 1..max_files_ of directory d has no gap
Contiguous(d) ==
  \A k \in 1..max_files_ :
    Exists(d, calc_filename(k)) =>
      \A j \in 1..(k - 1) : Exists(d, calc_filename(j))

\* C12 as stated: between sink operations the plaintext indices 1..max_files
\* on disk are contiguous from 1.
C12_AsStated == pc = "idle" => Contiguous(disk)

\* C12 amended: an operation that starts from a contiguous ladder and raises
\* no fatal rotation error leaves the ladder contiguous.
C12_LadderContiguous ==
  (pc = "idle" /\ call.err # "rotation" /\ Contiguous(call.disk0)) =>
    Contiguous(disk)

\* a two-step shift has run and left both retained segments
C12_Witness ==
  /\ pc = "idle"
  /\ call.nRot = 1
  /\ call.err = "none"
  /\ max_files_ = 2
  /\ Exists(call.disk0, calc_filename(1))
  /\ Exists(disk, calc_filename(1))
  /\ Exists(disk, calc_filename(2))

\* a construction has completed
AfterCtor == pc = "idle" /\ call.op = "ctor"

\* the content the active file had when the constructor opened it
OldContent == call.disk0[Active]

\* C13 as stated: a construction with rotate_on_open set and a non-empty
\* active file runs exactly one rotation+compression cycle, after which the
\* old content is at index 1 (or in an archive when max_files = 1) and the
\* active file is empty; any other construction performs no rotation.
C13_AsStated ==
  AfterCtor =>
    IF call.flag /\ call.pre > 0
      THEN /\ call.nRot = 1
           /\ call.nComp = 1
           /\ \/ Exists(disk, calc_filename(1)) /\ disk[calc_filename(1)] = OldContent
              \/ max_files_ = 1 /\ \E a \in Archives(disk) : disk[a] = OldContent
           /\ Exists(disk, Active)
           /\ disk[Active] = <<>>
      ELSE /\ call.nRot = 0
           /\ call.nComp = 0
           /\ disk = call.disk0

\* C13 amended: the same for max_files >= 1; with max_files = 0 the old
\* content is discarded, and in every case the file the sink writes to is
\* empty after the cycle.
C13_RotateOnOpen ==
  AfterCtor =>
    IF call.flag /\ call.pre > 0
      THEN /\ call.nRot = 1
           /\ call.nComp = 1
           /\ OpenContent = <<>>
           /\ max_files_ >= 1 =>
                \/ Exists(disk, calc_filename(1)) /\ disk[calc_filename(1)] = OldContent
                \/ max_files_ = 1 /\ \E a \in Archives(disk) : disk[a] = OldContent
           /\ max_files_ = 0 => \A n \in DOMAIN disk : disk[n] # OldContent
      ELSE /\ call.nRot = 0
           /\ call.nComp = 0
           /\ disk = call.disk0

C13_Witness ==
  /\ AfterCtor
  /\ call.flag
  /\ call.pre > 0
  /\ max_files_ = 2
  /\ disk[calc_filename(1)] = OldContent

\* a rotation+compression cycle started by sink_it_ is in progress
InCycle == pc \in {"rotate", "rotate_retry", "scan", "scan_retry"} /\ caller = "sink"

\* a log call appends its record to recs, a flush call leaves its mark in call
CallStarts == Len(recs') > Len(recs) \/ (call' # call /\ call'.op = "flush")

RECURSIVE from_string(_)
from_string(s) ==
  IF s = <<>> THEN 0
  ELSE from_string(SubSeq(s, 1, Len(s) - 1)) * 10
         + (CHOOSE d \in 0..9 : DigitChars[d + 1] = s[Len(s)])

\* the index read back from a generated name by matching
\* <basename>.([0-9]+)<ext> (lines 179, 198); the base path itself is index 0
IndexOf(base, name) ==
  IF name = base THEN 0
  ELSE from_string(SubSeq(name, Len(split_by_extension(base)[1]) + 2,
                          Len(name) - Len(split_by_extension(base)[2])))

\* C15: calc_filename(base, 0) is base; for index > 0 the result is base with
\* ".<index>" put before the extension, which starts at the last dot, or at
\* the end when there is no extension; for a fixed base distinct indices give
\* distinct paths, and the index is read back from the generated name.
C15_CalcFilename ==
  /\ index_ = 0 => name_ = base_filename_
  /\ index_ > 0 =>
       \E k \in 0..Len(base_filename_) :
         /\ name_ = SubSeq(base_filename_, 1, k) \o <<".">> \o to_string(index_)
                      \o SubSeq(base_filename_, k + 1, Len(base_filename_))
         /\ k = Len(base_filename_) \/ k + 1 = rfind(base_filename_, {"."})
  /\ \A k \in (0..MaxIndex) \ {index_} :
       calc_filename_path(base_filename_, k) # name_
  /\ IndexOf(base_filename_, name_) = index_
  /\ calc_filename_path(<<"a", "/", "b", ".", "l", "o", "g">>, 3)
       = <<"a", "/", "b", ".", "3", ".", "l", "o", "g">>
  /\ calc_filename_path(<<"a", "/", "b">>, 2) = <<"a", "/", "b", ".", "2">>

C15_Witness ==
  /\ base_filename_ = <<"a", ".", "a">>
  /\ index_ = 11
  /\ name_ = <<"a", ".", "1", "1", ".", "a">>

\* rotate_ with every rename succeeding took directory d0 to directory d1
Shifted(d0, d1) ==
  /\ \A k \in 1..max_files_ :
       Exists(d0, calc_filename(k - 1)) =>
         /\ Exists(d1, calc_filename(k))
         /\ d1[calc_filename(k)] = d0[calc_filename(k - 1)]
  /\ \A n \in Plain(d1) \ {Active} :
       \/ Exists(d0, calc_filename(n[1] - 1)) /\ d1[n] = d0[calc_filename(n[1] - 1)]
       \/ n = calc_filename(max_files_) /\ Exists(d0, n) /\ d1[n] = d0[n]
  /\ \A a \in Archives(d0) \cup Archives(d1) :
       Exists(d0, a) /\ Exists(d1, a) /\ d1[a] = d0[a]
  /\ Exists(d1, Active)
  /\ d1[Active] = <<>>

\* C16: when rotate_ ends with every rename having succeeded, each slot i in
\* 1..max_files whose predecessor existed holds what slot i-1 held before,
\* no plaintext content other than that of slot max_files is gone, no
\* archive has changed, and the active file is empty.
C16_RotationShift ==
  [][(pc = "rotate" /\ pc' = "scan" /\ call.nFail = 0) =>
       Shifted(call.disk0, disk')]_vars

\* both steps of a two-step shift have moved a segment
C16_Witness ==
  /\ pc = "scan"
  /\ call.nFail = 0
  /\ max_files_ = 2
  /\ Exists(call.disk0, calc_filename(1))
  /\ disk[calc_filename(2)] = call.disk0[calc_filename(1)]
  /\ disk[calc_filename(1)] = call.disk0[Active]

\* the archives of directory d0 that the shift step is to keep, and the name
\* each has after one shift
KeptArchives(d0) == {a \in Archives(d0) : ~IsOldest(a)}
ShiftedName(a) == IF IsShiftable(a) THEN shift_target(a) ELSE a

\* every archive of d0 in the oldest slot is gone and every other one is in
\* d1 exactly one slot further, with its content
ShiftedOnce(d0, d1) ==
  /\ Archives(d1) = {ShiftedName(a) : a \in KeptArchives(d0)}
  /\ \A a \in KeptArchives(d0) : d1[ShiftedName(a)] = d0[a]

\* C17: when the archive shift step of compress_ ends, every archive that was
\* there at its start has been deleted (oldest slot) or renamed exactly once
\* from slot N to slot N+1, and no rename has removed another archive.
C17_ShiftOnce ==
  [][(pc = "scan" /\ pc' = "idle") => ShiftedOnce(call.disk0, disk)]_vars

\* a rotation+compression cycle is running, for sink_it_ or the constructor
Cycling == pc \in {"rotate", "rotate_retry", "scan", "scan_retry"}

\* the rename attempts and loop steps the running cycle can still make: two
\* per entry the directory iterator can still return, and before that two
\* per remaining index of rotate_
ScanSteps(must, seen) == 2 * (Cardinality(must) + MaxRevisits - seen)

StepsLeft ==
  CASE pc = "rotate" -> ScanSteps(scan_entries(disk), 0) + 2 * i + 2
    [] pc = "rotate_retry" -> ScanSteps(scan_entries(disk), 0) + 2 * i + 1
    [] pc = "scan" -> ScanSteps(scanMust, revisits) + 1
    [] pc = "scan_retry" -> ScanSteps(scanMust, revisits) + 2
    [] OTHER -> 0

FatalFrame(d0, d1, k) ==
  /\ \A j \in (k + 1)..max_files_ :
       Exists(d0, calc_filename(j - 1)) =>
         /\ Exists(d1, calc_filename(j))
         /\ d1[calc_filename(j)] = d0[calc_filename(j - 1)]
  /\ ~Exists(d1, calc_filename(k))
  /\ \A j \in 1..(k - 1) :
       /\ Exists(d1, calc_filename(j)) <=> Exists(d0, calc_filename(j))
       /\ Exists(d0, calc_filename(j)) => d1[calc_filename(j)] = d0[calc_filename(j)]
  /\ Archives(d1) = Archives(d0)
  /\ \A a \in Archives(d0) : d1[a] = d0[a]
  /\ Exists(d1, Active)
  /\ d1[Active] = <<>>

\* C19: when rotate_ raises its fatal error at shift step i, the shifts done
\* for the indices above i stay done, the segments at indices 1..i-1 keep
\* their path and content, slot i is empty, no archive has changed and
\* compress_ has not run, and the active file is truncated.
C19_FatalRotationFrame ==
  [][(pc = "rotate_retry" /\ call'.err = "rotation") =>
       (FatalFrame(call.disk0, disk', i) /\ call'.nComp = 0)]_vars

\* the fatal error came at the top step, whose target slot was occupied
C19_Witness ==
  /\ call.err = "rotation"
  /\ max_files_ >= 1
  /\ i = max_files_
  /\ Exists(call.disk0, calc_filename(max_files_))
  /\ ~Exists(disk, calc_filename(max_files_))

\* C20: compress_ never compresses or removes the file at index 0: every
\* archive is made from a retired segment of index >= 1, and the file the
\* sink has open is never removed from the directory.
C20_ActiveNeverCompressed ==
  /\ \A a \in Archives(disk) : a[1] >= 1
  /\ fd # "unlinked"

====
